---- MODULE Spec2Model ----
(***************************************************************************)
(* Verification model of cdk-proserve-lib:                                 *)
(*   - the Ec2ImageBuilderStart construct and the CloudFormation lifecycle *)
(*     of the resources it declares,                                       *)
(*   - the DynamoDBProvisionTable per-stack provider cache,                *)
(*   - the WAF managed-rule enum generator and the README library          *)
(*     generator scripts.                                                  *)
(* The three programs are independent; each has its own specification.     *)
(* An optional value (undefined in the source) is a sequence of length 0   *)
(* or 1.                                                                   *)
(***************************************************************************)
EXTENDS Integers, Sequences, FiniteSets, TLC

VARIABLES
    \* Ec2ImageBuilderStart
    construct,      \* the last instantiation: <<>> or <<[props, result]>>
    stack,          \* the deployed CloudFormation stack
    lastOp,         \* the last operation: "none", "synth-failed", "deploy", "destroy"
    lastEvents,     \* custom resource events delivered by the last operation
    startCalls,     \* startImagePipelineExecution calls made by the last operation
    waitsCreated,   \* wait conditions CloudFormation created in the last operation
    \* DynamoDBProvisionTable
    stacks,         \* the Stack objects created so far: the node id of each
    serviceTokens,  \* DynamoDBProvisionTable.serviceTokens: node id -> Provider
    providers,      \* the Provider objects created so far: the stack of each
    tables,         \* the DynamoDBProvisionTable instances created so far
    \* generator scripts
    script,         \* the script this run of node executes: "waf" or "readme"
    \* WAF managed-rule enum generator
    wafResponse,    \* what ListAvailableManagedRuleGroups answers
    wafFile,        \* src/constructs/web-application-firewall/index.ts: <<>> or <<content>>
    wafPrev,        \* the file before the last run
    wafRuns,        \* runs of the generator so far
    wafOutcome,     \* how the last run ended
    \* README library generator
    apiMd,          \* API.md: <<>> or <<lines>>
    readme,         \* README.md: <<>> or <<lines>>
    readmePrev,     \* README.md before the last run
    readmeRuns,     \* runs of the generator so far
    readmeOutcome,  \* how the last run ended
    apiData         \* what parseApiDoc returned in the last run: <<>> or <<DocItems>>

ec2Vars == <<construct, stack, lastOp, lastEvents, startCalls, waitsCreated>>

ddbVars == <<stacks, serviceTokens, providers, tables>>

wafVars == <<wafResponse, wafFile, wafPrev, wafRuns, wafOutcome>>

readmeVars == <<apiMd, readme, readmePrev, readmeRuns, readmeOutcome, apiData>>

genVars == <<script, wafVars, readmeVars>>

vars == <<ec2Vars, ddbVars, genVars>>

\* the programs are independent: a step of one leaves the others alone
OthersThanEc2 == <<ddbVars, genVars>>
OthersThanDdb == <<ec2Vars, genVars>>
OthersThanWaf == <<ec2Vars, ddbVars, script, readmeVars>>
OthersThanReadme == <<ec2Vars, ddbVars, script, wafVars>>

Nothing == <<>>
Some(x) == <<x>>

(***************************************************************************)
(* Bounds                                                                  *)
(***************************************************************************)
HashOver == 1       \* hashes up to HashLimit + HashOver characters
TimeoutOver == 1    \* timeouts up to TimeoutLimitSeconds + TimeoutOver seconds
MaxStacks == 3      \* Stack objects created
MaxTables == 3      \* DynamoDBProvisionTable instances created
MaxGroups == 2      \* rule groups in an API response
MaxFileLen == 3     \* pieces of text in the WAF source file before the generator runs
MaxReadmeLen == 2   \* lines of README.md before the generator runs
MaxRuns == 2        \* runs of a generator
MaxApiLines == 2    \* lines of API.md
MaxParseLines == 4  \* lines of API.md when the parser is examined on its own

(***************************************************************************)
(* Ec2ImageBuilderStart                                                    *)
(***************************************************************************)
TimeoutLimitSeconds == 43200
HashLimit == 7
DefaultTimeoutHours == 12
SecondsPerHour == 3600

TimeoutError == "Timeout cannot exceed 12 hours"
HashError == "Hash must be 7 characters or less"
ArnError == "Value is not a valid AWS ARN"
NoError == "none"

DefaultHash == <<"R", "u", "n", "1", "x">>

\* a string of n characters
Chars(n) == [i \in 1..n |-> "a"]

\* props.hash: absent, the value the constructor uses as default, or n characters
Hashes ==
    {Nothing, Some(DefaultHash)}
    \cup {Some(Chars(n)) : n \in (HashLimit - 1)..(HashLimit + HashOver)}

\* aws-cdk-lib Duration: an amount in a unit.  The timeouts given are in
\* seconds, around the limit; the default is Duration.hours(12).
Durations ==
    [amount : (TimeoutLimitSeconds - 1)..(TimeoutLimitSeconds + TimeoutOver),
     unit : {"seconds"}]

toSeconds(d) == IF d.unit = "hours" THEN d.amount * SecondsPerHour ELSE d.amount

Topics == {"topic"}

WaitForCompletionProps ==
    [topic : Topics, timeout : {Nothing} \cup {Some(d) : d \in Durations}]

Arns == {"arn:aws:imagebuilder:pipelineA", "arn:aws:imagebuilder:pipelineB", "not-an-arn"}

Ec2ImageBuilderStartProps ==
    [pipelineArn : Arns,
     hash : Hashes,
     waitForCompletion : {Nothing} \cup {Some(w) : w \in WaitForCompletionProps}]

\* validate(props.pipelineArn, ValidationTypes.AWS_ARN)
validate(arn) == arn # "not-an-arn"

\* props.waitForCompletion?.timeout?.toSeconds() ?? 0
TimeoutSecondsOrZero(props) ==
    IF props.waitForCompletion = Nothing THEN 0
    ELSE IF props.waitForCompletion[1].timeout = Nothing THEN 0
    ELSE toSeconds(props.waitForCompletion[1].timeout[1])

\* props.hash?.length ?? 0
HashLengthOrZero(props) ==
    IF props.hash = Nothing THEN 0 ELSE Len(props.hash[1])

\* this.hash = props.hash ?? 'Run1x'
EffectiveHash(props) ==
    IF props.hash = Nothing THEN DefaultHash ELSE props.hash[1]

start_FixedPhysicalId(pipelineArn, hash) ==
    [action |-> "startImagePipelineExecution",
     service |-> "Imagebuilder",
     parameters |-> [imagePipelineArn |-> pipelineArn],
     physicalResourceId |-> DefaultHash]

\* Ec2ImageBuilderStart.start
start(pipelineArn, hash) ==
    [action |-> "startImagePipelineExecution",
     service |-> "Imagebuilder",
     parameters |-> [imagePipelineArn |-> pipelineArn],
     physicalResourceId |-> hash]

CustomResource_StartsOnDelete(props, hash) ==
    [id |-> "Ec2ImageBuilderStartCr",
     resourceType |-> "Custom::Ec2ImageBuilderStart",
     policy |-> [resources |-> {props.pipelineArn}],
     onCreate |-> Some(start(props.pipelineArn, hash)),
     onUpdate |-> Some(start(props.pipelineArn, hash)),
     onDelete |-> Some(start(props.pipelineArn, hash))]

\* new AwsCustomResource(this, 'Ec2ImageBuilderStartCr', {...})
CustomResource(props, hash) ==
    [id |-> "Ec2ImageBuilderStartCr",
     resourceType |-> "Custom::Ec2ImageBuilderStart",
     policy |-> [resources |-> {props.pipelineArn}],
     onCreate |-> Some(start(props.pipelineArn, hash)),
     onUpdate |-> Some(start(props.pipelineArn, hash)),
     onDelete |-> Nothing]

WaitDuration_LongDefault(w) ==
    IF w.timeout = Nothing
    THEN [amount |-> DefaultTimeoutHours + 1, unit |-> "hours"]
    ELSE w.timeout[1]

\* the wait condition's timeout: props.waitForCompletion?.timeout ?? Duration.hours(12)
WaitDuration(w) ==
    IF w.timeout = Nothing
    THEN [amount |-> DefaultTimeoutHours, unit |-> "hours"]
    ELSE w.timeout[1]

\* the wait handle, the signal function subscribed to the topic, and the wait
\* condition; timeout is duration.toSeconds().toString(), kept as the number
WaitResources(w, handleId, waiterId, dependsOn) ==
    [waitHandle |-> Some([id |-> handleId]),
     signal |-> Some([id |-> "WaiterSignal",
                      environment |-> [WAIT_HANDLE_URL |-> handleId,
                                       IMAGE_BUILD_ARN |-> "imageBuildVersionArn"],
                      eventSources |-> {w.topic}]),
     waiter |-> Some([id |-> waiterId,
                      handle |-> handleId,
                      timeout |-> toSeconds(WaitDuration(w)),
                      dependsOn |-> dependsOn])]

NoWaitResources == [waitHandle |-> Nothing, signal |-> Nothing, waiter |-> Nothing]

waitForTopicSignal_NoDependency(props, hash) ==
    IF props.waitForCompletion = Nothing THEN NoWaitResources
    ELSE WaitResources(props.waitForCompletion[1],
                       <<"WaitHandle">> \o hash, <<"Waiter">> \o hash, {})

waitForTopicSignal_FixedIds(props, hash) ==
    IF props.waitForCompletion = Nothing THEN NoWaitResources
    ELSE WaitResources(props.waitForCompletion[1],
                       <<"WaitHandle">>, <<"Waiter">>, {"WaiterSignal"})

\* Ec2ImageBuilderStart.waitForTopicSignal: the three resources it adds, or none
waitForTopicSignal(props, hash) ==
    IF props.waitForCompletion = Nothing THEN NoWaitResources
    ELSE WaitResources(props.waitForCompletion[1],
                       <<"WaitHandle">> \o hash, <<"Waiter">> \o hash,
                       {"WaiterSignal"})

Thrown(msg) ==
    [error |-> msg, cr |-> Nothing,
     waitHandle |-> Nothing, signal |-> Nothing, waiter |-> Nothing]

\* the constructor's body once the three checks have passed
Constructed(props) ==
    LET hash == EffectiveHash(props)
        wait == waitForTopicSignal(props, hash)
    IN  [error |-> NoError,
         cr |-> Some(CustomResource(props, hash)),
         waitHandle |-> wait.waitHandle,
         signal |-> wait.signal,
         waiter |-> wait.waiter]

Ec2ImageBuilderStart_TimeoutOffByOne(props) ==
    IF TimeoutSecondsOrZero(props) >= TimeoutLimitSeconds THEN Thrown(TimeoutError)
    ELSE IF HashLengthOrZero(props) > HashLimit THEN Thrown(HashError)
    ELSE IF ~validate(props.pipelineArn) THEN Thrown(ArnError)
    ELSE Constructed(props)

Ec2ImageBuilderStart_HashOffByOne(props) ==
    IF TimeoutSecondsOrZero(props) > TimeoutLimitSeconds THEN Thrown(TimeoutError)
    ELSE IF HashLengthOrZero(props) >= HashLimit THEN Thrown(HashError)
    ELSE IF ~validate(props.pipelineArn) THEN Thrown(ArnError)
    ELSE Constructed(props)

\* Ec2ImageBuilderStart.constructor: the error thrown, or the children created
Ec2ImageBuilderStart(props) ==
    IF TimeoutSecondsOrZero(props) > TimeoutLimitSeconds THEN Thrown(TimeoutError)
    ELSE IF HashLengthOrZero(props) > HashLimit THEN Thrown(HashError)
    ELSE IF ~validate(props.pipelineArn) THEN Thrown(ArnError)
    ELSE Constructed(props)

(***************************************************************************)
(* CloudFormation lifecycle of the resources the construct declares.       *)
(* The custom resource's properties are its SDK calls; CloudFormation      *)
(* sends Create for a new resource, Update when the properties changed,    *)
(* and Delete for the old physical id when an update returned a new one    *)
(* or the resource is removed.  AwsCustomResource runs the call defined    *)
(* for the event, if any.                                                  *)
(***************************************************************************)
EmptyStack ==
    [props |-> Nothing, cr |-> Nothing, physicalId |-> Nothing,
     waitHandle |-> Nothing, signal |-> Nothing, waiter |-> Nothing]

CrProperties(cr) ==
    [Create |-> cr.onCreate, Update |-> cr.onUpdate, Delete |-> cr.onDelete]

\* the events CloudFormation delivers to the custom resource on a deployment
CrEvents(old, new) ==
    IF old.cr = Nothing THEN <<"Create">>
    ELSE IF CrProperties(old.cr[1]) = CrProperties(new.cr[1]) THEN <<>>
    ELSE IF new.cr[1].onUpdate # Nothing
            /\ Some(new.cr[1].onUpdate[1].physicalResourceId) # old.physicalId
         THEN <<"Update", "Delete">>
         ELSE <<"Update">>

\* the SDK call AwsCustomResource makes for an event
CallFor(event, old, new) ==
    CASE event = "Create" -> new.cr[1].onCreate
      [] event = "Update" -> new.cr[1].onUpdate
      [] OTHER -> old.cr[1].onDelete

RECURSIVE StartCallsIn(_, _, _)
StartCallsIn(events, old, new) ==
    IF events = <<>> THEN 0
    ELSE LET call == CallFor(Head(events), old, new)
         IN  (IF call # Nothing /\ call[1].action = "startImagePipelineExecution"
              THEN 1 ELSE 0)
             + StartCallsIn(Tail(events), old, new)

PhysicalIdAfter(events, old, new) ==
    IF events = <<>> THEN old.physicalId
    ELSE LET call == CallFor(Head(events), old, new)
         IN  IF call = Nothing THEN old.physicalId
             ELSE Some(call[1].physicalResourceId)

\* a wait condition is created when its logical id is new to the stack
WaitCreated(old, new) ==
    IF new.waiter # Nothing
       /\ (old.waiter = Nothing \/ old.waiter[1].id # new.waiter[1].id)
    THEN 1 ELSE 0

\* cdk deploy: instantiate the construct, and on success update the stack
Deploy(props) ==
    LET c == Ec2ImageBuilderStart(props)
    IN  /\ UNCHANGED OthersThanEc2
        /\ construct' = Some([props |-> props, result |-> c])
        /\ IF c.error # NoError
           THEN /\ lastOp' = "synth-failed"
                /\ lastEvents' = <<>>
                /\ startCalls' = 0
                /\ waitsCreated' = 0
                /\ UNCHANGED stack
           ELSE LET events == CrEvents(stack, c)
                IN  /\ lastOp' = "deploy"
                    /\ lastEvents' = events
                    /\ startCalls' = StartCallsIn(events, stack, c)
                    /\ waitsCreated' = WaitCreated(stack, c)
                    /\ stack' = [props |-> Some(props),
                                 cr |-> c.cr,
                                 physicalId |-> PhysicalIdAfter(events, stack, c),
                                 waitHandle |-> c.waitHandle,
                                 signal |-> c.signal,
                                 waiter |-> c.waiter]

\* cdk destroy: every resource is deleted; the custom resource gets Delete
Destroy ==
    /\ stack.cr # Nothing
    /\ lastOp' = "destroy"
    /\ lastEvents' = <<"Delete">>
    /\ startCalls' = StartCallsIn(<<"Delete">>, stack, stack)
    /\ waitsCreated' = 0
    /\ stack' = EmptyStack
    /\ UNCHANGED <<construct, OthersThanEc2>>

Ec2Init ==
    /\ construct = Nothing
    /\ stack = EmptyStack
    /\ lastOp = "none"
    /\ lastEvents = <<>>
    /\ startCalls = 0
    /\ waitsCreated = 0

Ec2Next ==
    \/ \E props \in Ec2ImageBuilderStartProps : Deploy(props)
    \/ Destroy

(***************************************************************************)
(* DynamoDBProvisionTable                                                  *)
(***************************************************************************)
\* the ids stacks are created with; new Stack(undefined, undefined) gets 'Default'
StackIds == {"Default", "Named"}

\* new Stack(scope, id): a new Stack object; its node id need not be unique
NewStack(id) ==
    /\ Len(stacks) < MaxStacks
    /\ stacks' = Append(stacks, id)
    /\ UNCHANGED <<serviceTokens, providers, tables, OthersThanDdb>>

\* Stack.of(scope).node.id
StackNodeId(s) == stacks[s]

\* DynamoDBProvisionTable.getOrBuildProvider, called for a scope in stack s:
\* the cache and the providers after the call, and the Provider returned
getOrBuildProvider(s) ==
    LET stackId == StackNodeId(s)
        has == stackId \in DOMAIN serviceTokens
        built == Len(providers) + 1
        tokens == IF has THEN serviceTokens
                  ELSE [k \in DOMAIN serviceTokens \cup {stackId} |->
                           IF k = stackId THEN built ELSE serviceTokens[k]]
    IN  [serviceTokens |-> tokens,
         providers |-> IF has THEN providers ELSE Append(providers, [stack |-> s]),
         built |-> ~has,
         provider |-> tokens[stackId]]

\* new DynamoDBProvisionTable(scope, id, props), scope in stack s
NewDynamoDBProvisionTable(s) ==
    /\ Len(tables) < MaxTables
    /\ LET r == getOrBuildProvider(s)
       IN  /\ serviceTokens' = r.serviceTokens
           /\ providers' = r.providers
           /\ tables' = Append(tables, [stack |-> s,
                                        serviceToken |-> r.provider,
                                        built |-> r.built])
    /\ UNCHANGED <<stacks, OthersThanDdb>>

DdbInit ==
    /\ stacks = <<>>
    /\ serviceTokens = <<>>
    /\ providers = <<>>
    /\ tables = <<>>

DdbNext ==
    \/ \E id \in StackIds : NewStack(id)
    \/ \E s \in 1..Len(stacks) : NewDynamoDBProvisionTable(s)

(***************************************************************************)
(* WAF managed-rule enum generator.  A string is a sequence of characters; *)
(* a file is a sequence of pieces of text, each [k, t]: k names the fixed   *)
(* text of the piece and t holds the characters that vary.                 *)
(***************************************************************************)
Upper == <<"A","B","C","D","E","F","G","H","I","J","K","L","M",
           "N","O","P","Q","R","S","T","U","V","W","X","Y","Z">>
Lower == <<"a","b","c","d","e","f","g","h","i","j","k","l","m",
           "n","o","p","q","r","s","t","u","v","w","x","y","z">>

IsUpper(c) == \E i \in DOMAIN Upper : Upper[i] = c
IsLower(c) == \E i \in DOMAIN Lower : Lower[i] = c
toUpperCase(c) == IF IsLower(c) THEN Upper[CHOOSE i \in DOMAIN Lower : Lower[i] = c] ELSE c

StartsWithAt(s, i, pat) ==
    /\ i + Len(pat) - 1 <= Len(s)
    /\ \A k \in 1..Len(pat) : s[i + k - 1] = pat[k]

AwsPrefix == <<"A","W","S","M","a","n","a","g","e","d","R","u","l","e","s">>
Sqli == <<"S","Q","L","i">>
SqlDatabase == <<"S","Q","L","_","D","A","T","A","B","A","S","E">>

\* name.replace(/^AWSManagedRules/, '')
StripPrefix(s) ==
    IF StartsWithAt(s, 1, AwsPrefix) THEN SubSeq(s, Len(AwsPrefix) + 1, Len(s)) ELSE s

\* .replace(/SQLi/g, 'SQL_DATABASE'), from position i on
RECURSIVE ReplaceSqli(_, _)
ReplaceSqli(s, i) ==
    IF i > Len(s) THEN <<>>
    ELSE IF StartsWithAt(s, i, Sqli) THEN SqlDatabase \o ReplaceSqli(s, i + Len(Sqli))
    ELSE <<s[i]>> \o ReplaceSqli(s, i + 1)

\* the end of the run of upper-case letters that starts at i (i - 1 if none)
RECURSIVE UpperRunEnd(_, _)
UpperRunEnd(s, i) ==
    IF i <= Len(s) /\ IsUpper(s[i]) THEN UpperRunEnd(s, i + 1) ELSE i - 1

\* .replace(/([A-Z]+)([A-Z][a-z])/g, '$1_$2'), from position i on: a match at i
\* is a run of at least two upper-case letters followed by a lower-case one
RECURSIVE SplitAcronyms(_, _)
SplitAcronyms(s, i) ==
    IF i > Len(s) THEN <<>>
    ELSE LET e == UpperRunEnd(s, i)
         IN  IF e >= i + 1 /\ e + 1 <= Len(s) /\ IsLower(s[e + 1])
             THEN SubSeq(s, i, e - 1) \o <<"_", s[e], s[e + 1]>> \o SplitAcronyms(s, e + 2)
             ELSE <<s[i]>> \o SplitAcronyms(s, i + 1)

\* .replace(/([a-z])([A-Z])/g, '$1_$2'), from position i on
RECURSIVE SplitWords(_, _)
SplitWords(s, i) ==
    IF i > Len(s) THEN <<>>
    ELSE IF i + 1 <= Len(s) /\ IsLower(s[i]) /\ IsUpper(s[i + 1])
         THEN <<s[i], "_", s[i + 1]>> \o SplitWords(s, i + 2)
         ELSE <<s[i]>> \o SplitWords(s, i + 1)

formatRuleGroupName(name) ==
    LET a == ReplaceSqli(StripPrefix(name), 1)
        b == SplitAcronyms(a, 1)
        c == SplitWords(b, 1)
    IN  [i \in 1..Len(c) |-> toUpperCase(c[i])]

Piece(k, t) == [k |-> k, t |-> t]
StartMarker == Piece("/** WAF Managed Rule Groups */", <<>>)
EndMarker == Piece("/** End WAF Managed Rule Groups */", <<>>)
OtherText == Piece("text", <<>>)

\* the rule groups an answer is made of: two groups, a second description for
\* the first name, and a group without name
NameSqli == AwsPrefix \o <<"S","Q","L","i","R","u","l","e","S","e","t">>
NameAtp == AwsPrefix \o <<"A","T","P","R","u","l","e","S","e","t">>
RuleGroups ==
    {[Name |-> Some(NameSqli), Description |-> Some(<<"d">>)],
     [Name |-> Some(NameAtp), Description |-> Some(<<"e">>)],
     [Name |-> Some(NameSqli), Description |-> Some(<<"f">>)],
     [Name |-> Nothing, Description |-> Some(<<"d">>)]}

SeqsUpTo(S, n) == UNION {[1..k -> S] : k \in 0..n}

\* client.send(command): it rejects, or it answers with ManagedRuleGroups
\* undefined or a list
WafResponses ==
    {[rejects |-> TRUE, ManagedRuleGroups |-> Nothing],
     [rejects |-> FALSE, ManagedRuleGroups |-> Nothing]}
    \cup {[rejects |-> FALSE, ManagedRuleGroups |-> Some(g)] :
             g \in SeqsUpTo(RuleGroups, MaxGroups)}

WafFiles ==
    {Nothing} \cup {Some(f) : f \in SeqsUpTo({StartMarker, EndMarker, OtherText}, MaxFileLen)}

\* ruleGroups.filter((rule) => rule.Name && rule.Description)
RECURSIVE FilterNamed(_)
FilterNamed(groups) ==
    IF groups = <<>> THEN <<>>
    ELSE LET g == Head(groups)
             keep == g.Name # Nothing /\ g.Name # Some(<<>>)
                     /\ g.Description # Nothing /\ g.Description # Some(<<>>)
         IN  (IF keep THEN <<g>> ELSE <<>>) \o FilterNamed(Tail(groups))

\* new Map(pairs): a key keeps the place of its first pair and the value of its last
RECURSIVE MapEntries(_, _)
MapEntries(groups, i) ==
    IF i > Len(groups) THEN <<>>
    ELSE LET name == groups[i].Name[1]
             first == \A j \in 1..(i - 1) : groups[j].Name[1] # name
             last == CHOOSE j \in i..Len(groups) :
                         /\ groups[j].Name[1] = name
                         /\ \A k \in (j + 1)..Len(groups) : groups[k].Name[1] # name
         IN  (IF first
              THEN <<[ruleName |-> name, description |-> groups[last].Description[1]]>>
              ELSE <<>>)
             \o MapEntries(groups, i + 1)

\* `        /** ${description} */\n        ${name} = '${ruleName}'`
EnumEntry(e) ==
    <<Piece("/** description */", e.description),
      Piece("name =", formatRuleGroupName(e.ruleName)),
      Piece("'ruleName'", e.ruleName)>>

\* enumEntries.join(',\n\n')
RECURSIVE JoinEntries(_)
JoinEntries(entries) ==
    IF entries = <<>> THEN <<>>
    ELSE IF Len(entries) = 1 THEN EnumEntry(entries[1])
    ELSE EnumEntry(entries[1]) \o <<Piece(",\n\n", <<>>)>> \o JoinEntries(Tail(entries))

EnumString(groups) ==
    <<Piece("export enum AwsManagedRuleGroup {\n", <<>>)>>
    \o JoinEntries(MapEntries(FilterNamed(groups), 1))
    \o <<Piece("\n    }", <<>>)>>

\* fileContent.indexOf(marker), counted from 1; 0 when absent
indexOf(content, marker) ==
    IF \E i \in 1..Len(content) : content[i] = marker
    THEN CHOOSE i \in 1..Len(content) :
             content[i] = marker /\ \A j \in 1..(i - 1) : content[j] # marker
    ELSE 0

\* fileContent.slice(0, startIndex + startMarker.length) + '\n' + enumString
\* + '\n    ' + fileContent.slice(endIndex)
InjectEnum(content, enumString) ==
    SubSeq(content, 1, indexOf(content, StartMarker))
    \o <<Piece("\n", <<>>)>>
    \o enumString
    \o <<Piece("\n    ", <<>>)>>
    \o SubSeq(content, indexOf(content, EndMarker), Len(content))

ApiRejected == "ListAvailableManagedRuleGroups failed"
NoGroupsError == "No managed rule groups found"
NoFileError == "ENOENT: no such file or directory"
NoMarkersError == "Could not find injection markers in the file"

\* the try block with the write moved before the marker check
WafTry_WritesBeforeCheck(response, file) ==
    IF response.rejects THEN [threw |-> ApiRejected, write |-> Nothing]
    ELSE LET ruleGroups == IF response.ManagedRuleGroups = Nothing THEN <<>>
                           ELSE response.ManagedRuleGroups[1]
         IN  IF Len(ruleGroups) = 0 THEN [threw |-> NoGroupsError, write |-> Nothing]
             ELSE IF file = Nothing THEN [threw |-> NoFileError, write |-> Nothing]
             ELSE IF indexOf(file[1], StartMarker) = 0 \/ indexOf(file[1], EndMarker) = 0
                  THEN [threw |-> NoMarkersError,
                        write |-> Some(file[1] \o EnumString(ruleGroups))]
             ELSE [threw |-> NoError,
                   write |-> Some(InjectEnum(file[1], EnumString(ruleGroups)))]

\* the body of the try block: the error it throws, or the content it writes
WafTry(response, file) ==
    IF response.rejects THEN [threw |-> ApiRejected, write |-> Nothing]
    ELSE LET ruleGroups == IF response.ManagedRuleGroups = Nothing THEN <<>>
                           ELSE response.ManagedRuleGroups[1]
         IN  IF Len(ruleGroups) = 0 THEN [threw |-> NoGroupsError, write |-> Nothing]
             ELSE IF file = Nothing THEN [threw |-> NoFileError, write |-> Nothing]
             ELSE IF indexOf(file[1], StartMarker) = 0 \/ indexOf(file[1], EndMarker) = 0
                  THEN [threw |-> NoMarkersError, write |-> Nothing]
             ELSE [threw |-> NoError,
                   write |-> Some(InjectEnum(file[1], EnumString(ruleGroups)))]

generateAndInjectAwsManagedRuleEnum_NoCatch(response, file) ==
    LET r == WafTry(response, file)
    IN  [write |-> r.write, logged |-> NoError, uncaught |-> r.threw]

\* try { ... } catch (error) { console.error(...) }: what is written, what is
\* logged as an error, and what leaves the function as a rejection
generateAndInjectAwsManagedRuleEnum(response, file) ==
    LET r == WafTry(response, file)
    IN  [write |-> r.write, logged |-> r.threw, uncaught |-> NoError]

RunWafGenerator ==
    /\ script = "waf"
    /\ wafRuns < MaxRuns
    /\ LET r == generateAndInjectAwsManagedRuleEnum(wafResponse, wafFile)
       IN  /\ wafOutcome' = [written |-> r.write # Nothing,
                             logged |-> r.logged,
                             uncaught |-> r.uncaught]
           /\ wafFile' = IF r.write # Nothing THEN r.write ELSE wafFile
    /\ wafPrev' = wafFile
    /\ wafRuns' = wafRuns + 1
    /\ UNCHANGED <<wafResponse, OthersThanWaf>>

NotRun == [written |-> FALSE, logged |-> NoError, uncaught |-> NoError]

WafStart ==
    /\ wafPrev = Nothing
    /\ wafRuns = 0
    /\ wafOutcome = NotRun

WafInit ==
    /\ wafResponse \in WafResponses
    /\ wafFile \in WafFiles
    /\ WafStart

WafIdle ==
    /\ wafResponse = [rejects |-> TRUE, ManagedRuleGroups |-> Nothing]
    /\ wafFile = Nothing
    /\ WafStart

(***************************************************************************)
(* README library generator.  API.md is a sequence of trimmed lines, each  *)
(* [kind, name, cats, text]:                                               *)
(*   "h2ignored"  a line starting with '## Structs' or '## Enum'           *)
(*   "h2"         another line starting with '## '                         *)
(*   "h3"         a line starting with '### ' that holds id="...": name is *)
(*                its first word, cats the categories among patterns,      *)
(*                aspects, constructs, types that its id contains          *)
(*   "hash"       another line starting with '#'                           *)
(*   "rule"       a line starting with '---'                               *)
(*   "impl"       a line starting with '- *Implements:*'                   *)
(*   "blank"      an empty line                                            *)
(*   "text"       any other line                                           *)
(***************************************************************************)
Line(kind, name, cats, text) == [kind |-> kind, name |-> name, cats |-> cats, text |-> text]

PlainLine(kind) == Line(kind, <<>>, {}, "")

\* the replacement pattern of String.prototype.replace that stands for the
\* text after the match
AfterMatch == "$'"

\* the lines of an API.md without '## ' headers: headers with an id, and the
\* lines a description is collected from
ApiLines ==
    {PlainLine("blank"),
     Line("text", <<>>, {}, "words"), Line("text", <<>>, {}, AfterMatch)}
    \cup {Line("h3", <<"A">>, cats, "") : cats \in {{}, {"constructs"}, {"types"}}}

ApiDocs == {Nothing} \cup {Some(d) : d \in SeqsUpTo(ApiLines, MaxApiLines)}

\* the while loop that collects the description from line j on
RECURSIVE Description(_, _, _)
Description(lines, j, found) ==
    IF j > Len(lines) THEN <<>>
    ELSE LET l == lines[j]
         IN  IF l.kind \in {"h2ignored", "h2", "h3", "hash", "rule"} THEN <<>>
             ELSE IF found /\ l.kind = "blank" THEN <<>>
             ELSE IF l.kind = "impl" THEN Description(lines, j + 1, found)
             ELSE IF l.kind = "blank" THEN Description(lines, j + 1, found)
             ELSE <<l.text>> \o Description(lines, j + 1, TRUE)

\* the categorisation of the pending item by the id of the header that follows
PushPending(st, cats) ==
    IF st.currentItem = Nothing THEN st
    ELSE IF "patterns" \in cats
         THEN [st EXCEPT !.patterns = Append(@, st.currentItem[1])]
    ELSE IF "aspects" \in cats
         THEN [st EXCEPT !.aspects = Append(@, st.currentItem[1])]
    ELSE IF "constructs" \in cats \/ "types" \notin cats
         THEN [st EXCEPT !.constructs = Append(@, st.currentItem[1])]
    ELSE st

\* a '### ' header with an id, outside the ignored sections
Header(st, lines, i) ==
    LET cats == lines[i].cats
        st1 == PushPending(st, cats)
        item == [name |-> lines[i].name,
                 description |-> Description(lines, i + 1, FALSE)]
    IN  IF "types" \in cats THEN [st1 EXCEPT !.currentItem = Nothing]
        ELSE IF "patterns" \in cats
             THEN [st1 EXCEPT !.patterns = Append(@, item), !.currentItem = Nothing]
        ELSE IF "aspects" \in cats
             THEN [st1 EXCEPT !.aspects = Append(@, item), !.currentItem = Nothing]
        ELSE IF "constructs" \in cats
             THEN [st1 EXCEPT !.constructs = Append(@, item), !.currentItem = Nothing]
        ELSE [st1 EXCEPT !.currentItem = Some(item)]

\* the loop body without the reset of inIgnoredSection at a '## ' header that
\* is neither Structs nor Enum
ParseLine_StaysIgnored(st, lines, i) ==
    LET l == lines[i]
    IN  IF l.kind = "h2ignored" THEN [st EXCEPT !.inIgnoredSection = TRUE]
        ELSE IF st.inIgnoredSection THEN st
        ELSE IF l.kind = "h3" THEN Header(st, lines, i)
        ELSE st

\* one turn of the for loop
ParseLine(st, lines, i) ==
    LET l == lines[i]
    IN  IF l.kind = "h2ignored" THEN [st EXCEPT !.inIgnoredSection = TRUE]
        ELSE LET st0 == IF l.kind = "h2" THEN [st EXCEPT !.inIgnoredSection = FALSE]
                        ELSE st
             IN  IF st0.inIgnoredSection THEN st0
                 ELSE IF l.kind = "h3" THEN Header(st0, lines, i)
                 ELSE st0

RECURSIVE ParseFrom(_, _, _)
ParseFrom(st, lines, i) ==
    IF i > Len(lines) THEN st ELSE ParseFrom(ParseLine(st, lines, i), lines, i + 1)

parseApiDoc(lines) ==
    LET st == ParseFrom([inIgnoredSection |-> FALSE, currentItem |-> Nothing,
                         constructs |-> <<>>, aspects |-> <<>>, patterns |-> <<>>],
                        lines, 1)
    IN  [constructs |-> IF st.currentItem = Nothing THEN st.constructs
                        ELSE Append(st.constructs, st.currentItem[1]),
         aspects |-> st.aspects,
         patterns |-> st.patterns]

toLowerCase(c) == IF IsUpper(c) THEN Lower[CHOOSE i \in DOMAIN Upper : Upper[i] = c] ELSE c

\* `- [**${name}**](API.md#${anchor}-): ${description}\n`
ItemLine(item) ==
    Piece("- [**name**](API.md#anchor-): description",
          item.name \o <<"|">> \o [i \in 1..Len(item.name) |-> toLowerCase(item.name[i])]
          \o <<"|">> \o item.description)

ItemLines(items) == [i \in 1..Len(items) |-> ItemLine(items[i])]

generateMarkdown(constructs, aspects, patterns) ==
    <<Piece("Total:", <<ToString(Len(constructs) + Len(aspects) + Len(patterns))>>),
      Piece("### Constructs ... Count:", <<ToString(Len(constructs))>>)>>
    \o ItemLines(constructs)
    \o <<Piece("### Aspects ... Count:", <<ToString(Len(aspects))>>)>>
    \o ItemLines(aspects)
    \o <<Piece("### Patterns ... Count:", <<ToString(Len(patterns))>>)>>
    \o ItemLines(patterns)

\* README.md is a sequence of lines: the Library header, another line that
\* starts with '## ', or any other text
LibraryHeader == Piece("## Library", <<>>)
OtherHeader == Piece("## ", <<>>)

ReadmeFiles ==
    {Nothing}
    \cup {Some(f) : f \in SeqsUpTo({LibraryHeader, OtherHeader, OtherText}, MaxReadmeLen)}

newLibrarySection(markdown) ==
    <<LibraryHeader, Piece("The library consists of ...", <<>>)>> \o markdown

\* a line that starts with '## ', whatever follows on it
StartsSection(line) == line.k \in {LibraryHeader.k, OtherHeader.k}

\* where the first match of /## Library/ starts; 0 when there is none
LibraryIndex(content) ==
    IF \E i \in 1..Len(content) : content[i].k = LibraryHeader.k
    THEN CHOOSE i \in 1..Len(content) :
             /\ content[i].k = LibraryHeader.k
             /\ \A j \in 1..(i - 1) : content[j].k # LibraryHeader.k
    ELSE 0

\* where the lazy match that starts at line s ends: before the next line that
\* starts with '## ' (the lookahead \n## ), or at the end of the file
RECURSIVE MatchEnd(_, _)
MatchEnd(content, i) ==
    IF i > Len(content) THEN i
    ELSE IF StartsSection(content[i]) THEN i
    ELSE MatchEnd(content, i + 1)

AppendToLast(lines, text) ==
    [lines EXCEPT ![Len(lines)] = [@ EXCEPT !.t = Append(@, text)]]

\* the replacement patterns in one line of the replacement string: $' is
\* replaced by the text after the match, which starts on a new line, and the
\* rest of the line follows it
RECURSIVE SubstituteLine(_, _, _)
SubstituteLine(done, todo, after) ==
    IF todo = <<>> THEN done
    ELSE IF Head(todo) = AfterMatch
         THEN SubstituteLine(done \o after, Tail(todo), after)
    ELSE SubstituteLine(AppendToLast(done, Head(todo)), Tail(todo), after)

\* GetSubstitution: the replacement string with its patterns replaced
RECURSIVE GetSubstitution(_, _)
GetSubstitution(replacement, after) ==
    IF replacement = <<>> THEN <<>>
    ELSE SubstituteLine(<<[Head(replacement) EXCEPT !.t = <<>>]>>,
                        Head(replacement).t, after)
         \o GetSubstitution(Tail(replacement), after)

\* readmeContent.replace(/## Library[\s\S]*?(?=\n## |$)/, newLibrarySection)
ReplaceLibrary(content, section) ==
    LET s == LibraryIndex(content)
        after == SubSeq(content, MatchEnd(content, s + 1), Len(content))
    IN  IF s = 0 THEN content
        ELSE SubSeq(content, 1, s - 1) \o GetSubstitution(section, after) \o after

\* the script body, which has no try block: what it writes, and the error that
\* leaves it
UpdateReadmeLibrary(api, file) ==
    IF api = Nothing THEN [write |-> Nothing, logged |-> NoError, uncaught |-> NoFileError]
    ELSE IF file = Nothing
         THEN [write |-> Nothing, logged |-> NoError, uncaught |-> NoFileError]
    ELSE LET items == parseApiDoc(api[1])
             markdown == generateMarkdown(items.constructs, items.aspects,
                                          items.patterns)
         IN  [write |-> Some(ReplaceLibrary(file[1], newLibrarySection(markdown))),
              logged |-> NoError, uncaught |-> NoError]

RunReadmeGenerator ==
    /\ script = "readme"
    /\ readmeRuns < MaxRuns
    /\ LET r == UpdateReadmeLibrary(apiMd, readme)
       IN  /\ readmeOutcome' = [written |-> r.write # Nothing,
                                logged |-> r.logged,
                                uncaught |-> r.uncaught]
           /\ readme' = IF r.write # Nothing THEN r.write ELSE readme
    /\ apiData' = IF apiMd = Nothing THEN apiData ELSE Some(parseApiDoc(apiMd[1]))
    /\ readmePrev' = readme
    /\ readmeRuns' = readmeRuns + 1
    /\ UNCHANGED <<apiMd, OthersThanReadme>>

ReadmeStart ==
    /\ readmePrev = Nothing
    /\ readmeRuns = 0
    /\ readmeOutcome = NotRun
    /\ apiData = Nothing

ReadmeInit ==
    /\ apiMd \in ApiDocs
    /\ readme \in ReadmeFiles
    /\ ReadmeStart

ReadmeIdle ==
    /\ apiMd = Nothing
    /\ readme = Nothing
    /\ ReadmeStart

GenNext ==
    \/ RunWafGenerator
    \/ RunReadmeGenerator

(***************************************************************************)
(* Specifications: one program runs, the others stay as constructed        *)
(***************************************************************************)
Init == Ec2Init /\ DdbInit /\ script = "waf" /\ WafIdle /\ ReadmeIdle

\* each script is a program of its own: a behaviour runs one of them, again
\* and again, on the files and the API answer it starts with
GenInit ==
    /\ Ec2Init
    /\ DdbInit
    /\ \/ script = "waf" /\ WafInit /\ ReadmeIdle
       \/ script = "readme" /\ WafIdle /\ ReadmeInit

SpecGenerators == GenInit /\ [][GenNext]_vars

\* the categories an id can name: '.patterns.', '.aspects.', '.constructs.',
\* '.types.', or none of them
Categories == {{}, {"patterns"}, {"aspects"}, {"constructs"}, {"types"}}

\* the name of the header on line i: the headers of one API.md have distinct names
HeaderName(i) == <<Upper[i]>>

\* the lines of an API.md with sections: '## ' headers and headers with an id
ParseLinesAt(i) ==
    {PlainLine("h2ignored"), PlainLine("h2")}
    \cup {Line("h3", HeaderName(i), cats, "") : cats \in Categories}

RECURSIVE DocsOfLen(_)
DocsOfLen(n) ==
    IF n = 0 THEN {<<>>}
    ELSE {Append(d, l) : d \in DocsOfLen(n - 1), l \in ParseLinesAt(n)}

ParseDocs == UNION {DocsOfLen(n) : n \in 0..MaxParseLines}

\* the README script run on a longer API.md and a README.md that holds the
\* Library section
ParseInit ==
    /\ Ec2Init
    /\ DdbInit
    /\ script = "readme"
    /\ WafIdle
    /\ apiMd \in {Some(d) : d \in ParseDocs}
    /\ readme = Some(<<LibraryHeader, OtherHeader>>)
    /\ ReadmeStart

SpecParseApiDoc == ParseInit /\ [][RunReadmeGenerator]_vars

SpecImageBuilder == Init /\ [][Ec2Next]_vars

SpecProvisionTable == Init /\ [][DdbNext]_vars

(***************************************************************************)
(* Ec2ImageBuilderStart: properties                                       *)
(***************************************************************************)
LastProps == construct[1].props
LastResult == construct[1].result

NothingCreated(r) ==
    r.cr = Nothing /\ r.waitHandle = Nothing /\ r.signal = Nothing /\ r.waiter = Nothing

GivenTimeoutExceeds(p) ==
    /\ p.waitForCompletion # Nothing
    /\ p.waitForCompletion[1].timeout # Nothing
    /\ toSeconds(p.waitForCompletion[1].timeout[1]) > TimeoutLimitSeconds

GivenHashTooLong(p) == p.hash # Nothing /\ Len(p.hash[1]) > HashLimit

\* C1: a timeout above 43200 seconds throws 'Timeout cannot exceed 12 hours'
\* before any resource is created; a timeout of at most 43200 seconds, or none,
\* never throws that error.
C1_TimeoutRejectedFirst ==
    construct # Nothing =>
        /\ GivenTimeoutExceeds(LastProps) =>
               LastResult.error = TimeoutError /\ NothingCreated(LastResult)
        /\ ~GivenTimeoutExceeds(LastProps) => LastResult.error # TimeoutError

C1_Witness ==
    /\ construct # Nothing
    /\ GivenTimeoutExceeds(LastProps)
    /\ LastResult.error = TimeoutError

\* C2 as stated: a hash longer than 7 characters throws 'Hash must be 7
\* characters or less' and creates no custom resource; a hash of at most 7
\* characters, or none, passes the hash check.
C2_Original ==
    construct # Nothing =>
        /\ GivenHashTooLong(LastProps) =>
               LastResult.error = HashError /\ LastResult.cr = Nothing
        /\ ~GivenHashTooLong(LastProps) => LastResult.error # HashError

\* C2 amended: a hash longer than 7 characters creates no custom resource and
\* throws 'Hash must be 7 characters or less', unless the timeout exceeds 12
\* hours, in which case the timeout error is thrown first; a hash of at most 7
\* characters, or none, passes the hash check.
C2_HashRejectedAfterTimeout ==
    construct # Nothing =>
        /\ GivenHashTooLong(LastProps) =>
               /\ LastResult.cr = Nothing
               /\ LastResult.error =
                      (IF GivenTimeoutExceeds(LastProps) THEN TimeoutError ELSE HashError)
        /\ ~GivenHashTooLong(LastProps) => LastResult.error # HashError

C2_Witness ==
    /\ construct # Nothing
    /\ GivenHashTooLong(LastProps)
    /\ LastResult.error = HashError

\* a successful deployment step, creating the stack or updating it
IsCreate == lastOp' = "deploy" /\ stack.cr = Nothing /\ stack'.cr # Nothing
IsUpdate == lastOp' = "deploy" /\ stack.cr # Nothing /\ stack'.cr # Nothing

OldProps == stack.props[1]
NewProps == stack'.props[1]

C7_WaitResources ==
    (construct # Nothing /\ LastResult.error = NoError) =>
        IF LastProps.waitForCompletion # Nothing
        THEN /\ LastResult.waitHandle # Nothing
             /\ LastResult.signal # Nothing
             /\ LastResult.waiter # Nothing
             /\ LastResult.signal[1].eventSources = {LastProps.waitForCompletion[1].topic}
             /\ LastResult.waiter[1].handle = LastResult.waitHandle[1].id
             /\ LastResult.signal[1].id \in LastResult.waiter[1].dependsOn
        ELSE /\ LastResult.waitHandle = Nothing
             /\ LastResult.signal = Nothing
             /\ LastResult.waiter = Nothing

C7_Witness ==
    /\ construct # Nothing
    /\ LastResult.error = NoError
    /\ LastProps.waitForCompletion # Nothing
    /\ LastResult.waiter # Nothing

\* C8: the wait condition's timeout is the given timeout in seconds, or 43200
\* when none is given, and never exceeds 43200.
C8_WaitTimeout ==
    (construct # Nothing /\ LastResult.waiter # Nothing) =>
        /\ LastResult.waiter[1].timeout =
               (IF LastProps.waitForCompletion[1].timeout = Nothing
                THEN TimeoutLimitSeconds
                ELSE toSeconds(LastProps.waitForCompletion[1].timeout[1]))
        /\ LastResult.waiter[1].timeout <= TimeoutLimitSeconds

C8_Witness ==
    /\ construct # Nothing
    /\ LastResult.waiter # Nothing
    /\ LastProps.waitForCompletion[1].timeout = Nothing
    /\ LastResult.waiter[1].timeout = TimeoutLimitSeconds

\* C9: the custom resource makes the same call on create and on update,
\* startImagePipelineExecution of the given pipeline with the hash as physical
\* id; it defines no call on delete, so a delete starts nothing; its policy
\* names exactly the given pipeline ARN.
C9_SameCallNoDelete ==
    /\ (construct # Nothing /\ LastResult.error = NoError) =>
           LET cr == LastResult.cr[1]
           IN  /\ cr.resourceType = "Custom::Ec2ImageBuilderStart"
               /\ cr.onCreate # Nothing
               /\ cr.onUpdate = cr.onCreate
               /\ cr.onCreate[1].service = "Imagebuilder"
               /\ cr.onCreate[1].action = "startImagePipelineExecution"
               /\ cr.onCreate[1].parameters.imagePipelineArn = LastProps.pipelineArn
               /\ cr.onCreate[1].physicalResourceId = EffectiveHash(LastProps)
               /\ cr.onDelete = Nothing
               /\ cr.policy.resources = {LastProps.pipelineArn}
    /\ lastOp = "destroy" => startCalls = 0

C9_Witness == lastOp = "destroy" /\ lastEvents = <<"Delete">> /\ startCalls = 0

\* the instances created in stack s, in creation order
TablesIn(s) == {i \in 1..Len(tables) : tables[i].stack = s}

FirstIn(s) == CHOOSE i \in TablesIn(s) : \A j \in TablesIn(s) : i <= j

\* C4: each stack holds at most one Provider; the first instantiation in a
\* stack builds it and every later instantiation in that stack reuses that
\* same Provider without building another.
C4_OneProviderPerStack ==
    \A s \in 1..Len(stacks) :
        /\ Cardinality({p \in 1..Len(providers) : providers[p].stack = s}) <= 1
        /\ TablesIn(s) # {} =>
               /\ tables[FirstIn(s)].built
               /\ \A i \in TablesIn(s) \ {FirstIn(s)} :
                      /\ ~tables[i].built
                      /\ tables[i].serviceToken = tables[FirstIn(s)].serviceToken

\* C5: for the same API response, a second run of the WAF generator on a file
\* that holds both markers leaves the file as the first run left it, and a run
\* leaves the text before the start marker and from the end marker on as it was.
C5_IdempotentInjection ==
    /\ (wafRuns >= 2 /\ wafOutcome.written) => wafFile = wafPrev
    /\ (wafRuns >= 1 /\ wafOutcome.written) =>
           LET old == wafPrev[1]
               new == wafFile[1]
               si == indexOf(old, StartMarker)
               ei == indexOf(old, EndMarker)
           IN  /\ SubSeq(new, 1, si - 1) = SubSeq(old, 1, si - 1)
               /\ SubSeq(new, Len(new) - (Len(old) - ei), Len(new))
                      = SubSeq(old, ei, Len(old))

WafFailed == wafRuns > 0 /\ ~wafOutcome.written
ReadmeFailed == readmeRuns > 0 /\ ~readmeOutcome.written

\* C6 as stated: in both generators a failure is caught and logged and never
\* leaves the script.
C6_Original ==
    /\ wafOutcome.uncaught = NoError
    /\ WafFailed => wafOutcome.logged # NoError
    /\ readmeOutcome.uncaught = NoError
    /\ ReadmeFailed => readmeOutcome.logged # NoError

\* C6 amended: in the WAF generator a failure (API error, empty result, missing
\* file, missing markers) is caught and logged and never leaves the function;
\* the README generator catches nothing: it fails exactly when API.md or
\* README.md is missing, and the error then leaves the script uncaught.
C6_WafCatchesReadmeDoesNot ==
    /\ wafOutcome.uncaught = NoError
    /\ WafFailed =>
           wafOutcome.logged \in {ApiRejected, NoGroupsError, NoFileError, NoMarkersError}
    /\ (wafRuns > 0 /\ wafOutcome.written) => wafOutcome.logged = NoError
    /\ readmeOutcome.logged = NoError
    /\ readmeRuns > 0 =>
           /\ readmeOutcome.written <=> (apiMd # Nothing /\ readmePrev # Nothing)
           /\ readmeOutcome.written <=> readmeOutcome.uncaught = NoError

\* a run of the WAF generator that found no markers, caught and logged
C6_Witness ==
    /\ wafRuns > 0
    /\ wafOutcome.logged = NoMarkersError
    /\ wafOutcome.uncaught = NoError

HasWait(s) == s.props # Nothing /\ s.waiter # Nothing /\ s.waitHandle # Nothing

InIgnoredSection(doc, i) ==
    \E j \in 1..(i - 1) :
        /\ doc[j].kind = "h2ignored"
        /\ \A k \in (j + 1)..(i - 1) : doc[k].kind \notin {"h2", "h2ignored"}

ListedIn(list, name) == \E k \in DOMAIN list : list[k].name = name

ListedAnywhere(data, name) ==
    \/ ListedIn(data.constructs, name)
    \/ ListedIn(data.aspects, name)
    \/ ListedIn(data.patterns, name)

Categorised(cats) ==
    "types" \notin cats /\ cats \cap {"patterns", "aspects", "constructs"} # {}

\* C11: a '### ' header with an id inside a '## Structs...' or '## Enum...'
\* section is in none of the three lists; the section ends at the next '## '
\* header that is neither, and a header after it whose id names patterns,
\* aspects or constructs is listed again.
C11_IgnoredSections ==
    apiData # Nothing =>
        \A i \in DOMAIN apiMd[1] :
            apiMd[1][i].kind = "h3" =>
                /\ InIgnoredSection(apiMd[1], i) =>
                       ~ListedAnywhere(apiData[1], apiMd[1][i].name)
                /\ (~InIgnoredSection(apiMd[1], i) /\ Categorised(apiMd[1][i].cats)) =>
                       ListedAnywhere(apiData[1], apiMd[1][i].name)

C11_Witness ==
    /\ apiData # Nothing
    /\ Len(apiMd[1]) = 4
    /\ apiMd[1][1].kind = "h2ignored"
    /\ apiMd[1][2].kind = "h3" /\ apiMd[1][2].cats = {"constructs"}
    /\ apiMd[1][3].kind = "h2"
    /\ apiMd[1][4].kind = "h3" /\ apiMd[1][4].cats = {"aspects"}
    /\ ~ListedAnywhere(apiData[1], apiMd[1][2].name)
    /\ ListedIn(apiData[1].aspects, apiMd[1][4].name)

ListedExactlyIn(data, category, name) ==
    /\ ListedIn(data.constructs, name) <=> category = "constructs"
    /\ ListedIn(data.aspects, name) <=> category = "aspects"
    /\ ListedIn(data.patterns, name) <=> category = "patterns"

\* C12: outside the ignored sections, a '### ' header whose id names no
\* category is listed under constructs whatever follows it, a header whose id
\* names patterns, aspects or constructs is listed under exactly that category,
\* and a header whose id names types is listed nowhere.
C12_DefaultToConstructs ==
    apiData # Nothing =>
        \A i \in DOMAIN apiMd[1] :
            (apiMd[1][i].kind = "h3" /\ ~InIgnoredSection(apiMd[1], i)) =>
                LET cats == apiMd[1][i].cats
                    name == apiMd[1][i].name
                IN  /\ cats = {} => ListedExactlyIn(apiData[1], "constructs", name)
                    /\ \A c \in {"patterns", "aspects", "constructs"} :
                           cats = {c} => ListedExactlyIn(apiData[1], c, name)
                    /\ cats = {"types"} => ~ListedAnywhere(apiData[1], name)

(***************************************************************************)
(* Generators: frame and idempotence                                       *)
(***************************************************************************)
NoGroupsAnswered ==
    /\ ~wafResponse.rejects
    /\ \/ wafResponse.ManagedRuleGroups = Nothing
       \/ wafResponse.ManagedRuleGroups = Some(<<>>)

MarkerAbsent(file) ==
    \/ \A i \in DOMAIN file : file[i] # StartMarker
    \/ \A i \in DOMAIN file : file[i] # EndMarker

\* C13: a run of the WAF generator that fails because the API answers with no
\* managed rule groups, or because the start or end marker is absent from the
\* file, logs that error and leaves the file as it was before the run.
C13_FailedRunWritesNothing ==
    wafRuns > 0 =>
        /\ NoGroupsAnswered =>
               /\ wafOutcome.logged = NoGroupsError
               /\ ~wafOutcome.written
               /\ wafFile = wafPrev
        /\ (~wafResponse.rejects /\ ~NoGroupsAnswered
            /\ wafPrev # Nothing /\ MarkerAbsent(wafPrev[1])) =>
               /\ wafOutcome.logged = NoMarkersError
               /\ ~wafOutcome.written
               /\ wafFile = wafPrev

C13_Witness ==
    /\ wafRuns > 0
    /\ wafOutcome.logged = NoMarkersError
    /\ wafPrev # Nothing
    /\ \E i \in DOMAIN wafPrev[1] : wafPrev[1][i] = StartMarker
    /\ wafFile = wafPrev

\* the text a run of the README generator leaves alone: what precedes the
\* Library header and what starts at the next '## ' header
LeftAlone(before, now) ==
    LET s == LibraryIndex(before)
        after == SubSeq(before, MatchEnd(before, s + 1), Len(before))
    IN  IF s = 0 THEN now = before
        ELSE /\ Len(now) >= (s - 1) + Len(after)
             /\ SubSeq(now, 1, s - 1) = SubSeq(before, 1, s - 1)
             /\ SubSeq(now, Len(now) - Len(after) + 1, Len(now)) = after

\* C14: for the same API.md a second run of the README generator leaves
\* README.md as the first run left it, and a run replaces only the text from
\* the Library header up to the next '## ' header or the end of the file.
C14_IdempotentAndLocal ==
    (readmeRuns > 0 /\ readmeOutcome.written) =>
        /\ LeftAlone(readmePrev[1], readme[1])
        /\ readmeRuns > 1 => readme = readmePrev

(***************************************************************************)
(* DynamoDBProvisionTable: the provider behind a service token             *)
(***************************************************************************)
\* C15: the service token of every DynamoDBProvisionTable refers to a Provider
\* that was created in the stack the instance belongs to.
C15_ProviderOfOwnStack ==
    \A i \in DOMAIN tables :
        providers[tables[i].serviceToken].stack = tables[i].stack

====
